---- MODULE Spec2Model ----
(***************************************************************************)
(* Redirect-and-attribution pipeline of the URL shortener                  *)
(* (src/src/middlewares/redirectMiddleware.ts).                            *)
(*                                                                         *)
(* One request is a chain of continuations of the async handler: every     *)
(* `await` is a suspension point, everything between two awaits runs to    *)
(* completion.  Each continuation is one action.  The detached impression  *)
(* insert and the setTimeout-ed attribution call are separate tasks.       *)
(* Strings that the code inspects character-wise (request path, URLs) are  *)
(* sequences of tokens.                                                    *)
(***************************************************************************)
EXTENDS Integers, Sequences, FiniteSets, TLC

\* ---------------------------------------------------------------- bounds
MaxRequests == 2
MaxTicks == 2

\* ------------------------------------------------------ program constants
WindowMinutes == 30

\* Granularity of the modelled clock: two thirds of the window, so that one
\* tick stays inside the window and two ticks leave it.
TickMinutes == (2 * WindowMinutes) \div 3

\* Handlers that can be in flight at the same time: the event loop interleaves
\* the continuations of overlapping requests.  A slot takes the next request
\* once its previous request and that request's detached tasks have ended.
Reqs == {1, 2}
IPs == {"10.0.0.1", "10.0.0.2"}

\* ------------------------------------------------------------ link store
\* Rows of the urls table together with their conversion goals.  Link 1 is
\* the one deleteUrl soft-deletes while requests are in flight; links 4 and 5
\* are ineligible from the start (deactivated, expired).
LinkTable ==
  << [id |-> 1, short_code |-> <<"c", "1">>, redirect_type |-> "301",
      original_url |-> <<"https://example.com/page", "?", "x=1">>,
      is_active |-> TRUE, expiry |-> -1, goals |-> <<>>],
     [id |-> 2, short_code |-> <<"c", "2">>, redirect_type |-> "302",
      original_url |-> <<"https://example.com/plain">>,
      is_active |-> TRUE, expiry |-> -1, goals |-> <<7, 9>>],
     [id |-> 3, short_code |-> <<"c", "3">>, redirect_type |-> "307",
      original_url |-> <<"https://example.com/app", "#", "tab", "?", "q">>,
      is_active |-> TRUE, expiry |-> -1, goals |-> <<>>],
     [id |-> 4, short_code |-> <<"d", "5">>, redirect_type |-> "302",
      original_url |-> <<"https://example.com/off">>,
      is_active |-> FALSE, expiry |-> -1, goals |-> <<>>],
     [id |-> 5, short_code |-> <<"d", "6">>, redirect_type |-> "302",
      original_url |-> <<"https://example.com/old">>,
      is_active |-> TRUE, expiry |-> 0, goals |-> <<>>] >>

LinkIds == 1..Len(LinkTable)
Deletable == {1}

\* Request paths as Express hands them over (always with the leading slash).
Paths ==
  { <<"/">>,
    <<"/", "a", "/", "b">>,
    <<"/", "a", "p", "i">>,
    <<"/", "a", "p", "i", "/", "v", "1">>,
    <<"/", "c", "1">>, <<"/", "c", "2">>, <<"/", "c", "3">>,
    <<"/", "d", "5">>, <<"/", "d", "6">>,
    <<"/", "x", "a", "p", "i">> }

VARIABLES
  clock,        \* wall clock of the store, minutes
  deleted,      \* ids of links soft-deleted since start
  arrived,      \* number of requests received so far
  clicks,       \* number of click rows, the last click id
  impressions,  \* impression rows
  rid,          \* number of the request a handler serves (0: none yet)
  pc,           \* position of each request's handler
  path,         \* req.path
  result,       \* value returned by recordClickAndGetOriginalUrl
  trackingId,   \* req.clickInfo?.trackingId ("" when absent)
  url,          \* local url, the value returned by getUrlByShortCode
  goalId,       \* local goalId (0: null)
  impTask,      \* detached recordImpression promise
  timer,        \* setTimeout-ed autoTrackConversion task
  calls,        \* payloads of the attribution calls started for the request
  response,     \* what the middleware wrote to res
  sent,         \* number of responses written to res
  nextCalled,   \* number of next() calls
  api           \* the call of a urlController function under study

vars == <<clock, deleted, arrived, clicks, impressions, rid, pc, path, result, trackingId,
          url, goalId, impTask, timer, calls, response, sent, nextCalled, api>>

\* ----------------------------------------------------------- string helpers
Includes(s, c) == \E i \in 1..Len(s) : s[i] = c

StartsWith(s, p) == Len(s) >= Len(p) /\ SubSeq(s, 1, Len(p)) = p

Substring1(s) == SubSeq(s, 2, Len(s))

\* ------------------------------------------------------------ collaborators
NoUrl == [found |-> FALSE]

NoResult == [found |-> FALSE]

\* A const the handler has not assigned yet.
Unassigned == [found |-> FALSE, unassigned |-> TRUE]

NoResponse == [kind |-> "none"]

LinkByCode(code) ==
  IF \E l \in LinkIds : LinkTable[l].short_code = code
  THEN LET l == CHOOSE k \in LinkIds : LinkTable[k].short_code = code
       IN [found |-> TRUE, id |-> l, redirect_type |-> LinkTable[l].redirect_type]
  ELSE NoUrl

IsExpired(l) == LinkTable[l].expiry >= 0 /\ LinkTable[l].expiry <= clock

\* urlService.getUrlByShortCode: the live row of the code, or nothing.
\* Soft-deleted and deactivated links are excluded, expiry is not looked at.
GetUrlByShortCode(code) ==
  LET u == LinkByCode(code)
  IN IF u.found /\ u.id \notin deleted /\ LinkTable[u.id].is_active THEN u ELSE NoUrl

\* urlService.recordClickAndGetOriginalUrl(shortCode, clickInfo, true):
\* what it returns for the click id the insert produced.
RecordClickResult(code, clickId) ==
  LET u == GetUrlByShortCode(code)
  IN IF u.found /\ ~IsExpired(u.id)
     THEN [found |-> TRUE, originalUrl |-> LinkTable[u.id].original_url,
           clickId |-> clickId, urlId |-> u.id]
     ELSE NoResult

\* req.setClickId(clickId, urlId) of the upstream tracking middleware.
TrackingToken(clickId, urlId) ==
  "trk-" \o ToString(clickId) \o "-" \o ToString(urlId)

\* impressionModel.hasRecentImpression(urlId, ipAddress)
HasRecentImpression(urlId, ip) ==
  \E i \in impressions :
     /\ i.url_id = urlId
     /\ i.ip_address = ip
     /\ i.timestamp > clock - WindowMinutes

\* conversionGoalModel.getGoalsByUrlId(urlId)
GetGoalsByUrlId(urlId) == LinkTable[urlId].goals

\* ------------------------------------------------- middleware, pure parts
ShortCode(p) == Substring1(p)

\* Variant: the reserved prefix is not tested.
ShouldSkip_NoPrefix(shortCode) ==
  \/ shortCode = <<>>
  \/ Includes(shortCode, "/")

ShouldSkip(shortCode) ==
  \/ shortCode = <<>>
  \/ Includes(shortCode, "/")
  \/ StartsWith(shortCode, <<"a", "p", "i">>)

\* Variant: every type but the temporary one is taken for permanent.
RedirectType_NotTemporary(u) ==
  IF u.found /\ u.redirect_type # "302" THEN 301 ELSE 302

\* Variant: the default is the permanent redirect.
RedirectType_DefaultPermanent(u) ==
  IF u.found /\ u.redirect_type = "302" THEN 302 ELSE 301

RedirectType(u) ==
  IF u.found /\ u.redirect_type = "301" THEN 301 ELSE 302

\* Variant: the result of the check is used without the negation.
IsUnique_Plain(recent) == recent

\* Variant: the result of the check is ignored.
IsUnique_Always(recent) == TRUE

IsUnique(recent) == ~recent

\* Variant: the goal added last is taken.
FirstGoalId_Last(goals) == IF Len(goals) > 0 THEN goals[Len(goals)] ELSE 0

FirstGoalId(goals) == IF Len(goals) > 0 THEN goals[1] ELSE 0

UtmParams == "utm_source=cylink&utm_medium=shortlink&utm_campaign=conversion&utm_content="

\* Variant: the separator is always "?".
BuildRedirectUrl_Question(originalUrl, tid) ==
  IF tid # "" THEN originalUrl \o <<"?", UtmParams, tid>> ELSE originalUrl

BuildRedirectUrl(originalUrl, tid) ==
  IF tid # ""
  THEN LET separator == IF Includes(originalUrl, "?") THEN "&" ELSE "?"
       IN originalUrl \o <<separator, UtmParams, tid>>
  ELSE originalUrl

\* Variant: the goal is not tested.
ShouldSchedule_TrackingOnly(tid, gid) == tid # ""

ShouldSchedule(tid, gid) == tid # "" /\ gid # 0

RedirectResponse(status, location) ==
  [kind |-> "redirect", status |-> status, location |-> location]

\* Variant: the 404 answer carries the generic message.
NotFoundResponse_Generic ==
  [kind |-> "json", status |-> 404,
   body |-> [status |-> 404, message |-> "Not Found"]]

NotFoundResponse ==
  [kind |-> "json", status |-> 404,
   body |-> [status |-> 404, message |-> "Short URL not found or has expired"]]

ServerErrorResponse ==
  [kind |-> "json", status |-> 500,
   body |-> [status |-> 500, message |-> "Internal Server Error"]]

\* Messages of the errors the collaborators throw.
ErrorMessages ==
  {"connect ECONNREFUSED 127.0.0.1:5432", "relation \"urls\" does not exist"}

\* Variant: the message of the caught error is passed on to the client.
ErrorResponse_Leaks(error) ==
  [kind |-> "json", status |-> 500,
   body |-> [status |-> 500, message |-> error]]

\* Lines 240-248: the outer catch logs the error and answers with the
\* fixed body, whatever was thrown.
ErrorResponse(error) == ServerErrorResponse

\* ------------------------------------------------------------------- Init
NoTask == [st |-> "none"]

\* No controller call is being looked at.
NoCall == [op |-> "none"]

Init ==
  /\ clock = 0
  /\ deleted = {}
  /\ arrived = 0
  /\ clicks = 0
  /\ impressions = {}
  /\ rid = [r \in Reqs |-> 0]
  /\ pc = [r \in Reqs |-> "idle"]
  /\ path = [r \in Reqs |-> <<>>]
  /\ result = [r \in Reqs |-> Unassigned]
  /\ trackingId = [r \in Reqs |-> ""]
  /\ url = [r \in Reqs |-> Unassigned]
  /\ goalId = [r \in Reqs |-> 0]
  /\ impTask = [r \in Reqs |-> NoTask]
  /\ timer = [r \in Reqs |-> NoTask]
  /\ calls = [r \in Reqs |-> <<>>]
  /\ response = [r \in Reqs |-> NoResponse]
  /\ sent = [r \in Reqs |-> 0]
  /\ nextCalled = [r \in Reqs |-> 0]
  /\ api = NoCall

\* Nothing of the request in slot r is running any more.
Ended(r) ==
  /\ pc[r] \in {"idle", "passed", "done"}
  /\ impTask[r].st # "pending"
  /\ timer[r].st # "armed"

\* res.redirect(...) / res.status(...).json(...): the handler returns with it.
Send(r, resp) ==
  /\ response' = [response EXCEPT ![r] = resp]
  /\ sent' = [sent EXCEPT ![r] = @ + 1]
  /\ pc' = [pc EXCEPT ![r] = "done"]

\* ---------------------------------------------------------------- actions
\* Lines 115-140: a request enters the middleware; either next() is called
\* or recordClickAndGetOriginalUrl is issued.
Arrive(r, p) ==
  /\ arrived < MaxRequests
  /\ Ended(r)
  /\ \A q \in Reqs : q < r => ~Ended(q)
  /\ arrived' = arrived + 1
  /\ LET gone == {q \in Reqs : Ended(q)} \ {r}
         Fresh(f, new, init) ==
           [q \in Reqs |-> IF q = r THEN new ELSE IF q \in gone THEN init ELSE f[q]]
         skip == ShouldSkip(ShortCode(p))
     IN /\ rid' = Fresh(rid, arrived + 1, 0)
        /\ path' = Fresh(path, p, <<>>)
        /\ result' = Fresh(result, Unassigned, Unassigned)
        /\ trackingId' = Fresh(trackingId, "", "")
        /\ url' = Fresh(url, Unassigned, Unassigned)
        /\ goalId' = Fresh(goalId, 0, 0)
        /\ impTask' = Fresh(impTask, NoTask, NoTask)
        /\ timer' = Fresh(timer, NoTask, NoTask)
        /\ calls' = Fresh(calls, <<>>, <<>>)
        /\ response' = Fresh(response, NoResponse, NoResponse)
        /\ sent' = Fresh(sent, 0, 0)
        /\ nextCalled' = Fresh(nextCalled, IF skip THEN 1 ELSE 0, 0)
        /\ pc' = Fresh(pc, IF skip THEN "passed" ELSE "resolve", "idle")
  /\ UNCHANGED <<clock, deleted, clicks, impressions, api>>

\* Variant: the handler goes on with the stored row of the code whenever
\* there is one, whether or not the service reported the link as live.
RecordClickReturns_AnyRow(r) ==
  /\ pc[r] = "resolve"
  /\ LET res == RecordClickResult(ShortCode(path[r]), clicks + 1)
         row == LinkByCode(ShortCode(path[r]))
     IN IF row.found
        THEN /\ clicks' = clicks + 1
             /\ result' = [result EXCEPT ![r] =
                   [found |-> TRUE, originalUrl |-> LinkTable[row.id].original_url,
                    clickId |-> clicks + 1, urlId |-> row.id]]
             /\ \E hook \in BOOLEAN :
                  trackingId' = [trackingId EXCEPT ![r] =
                     IF hook THEN TrackingToken(clicks + 1, row.id) ELSE ""]
             /\ pc' = [pc EXCEPT ![r] = "lookup"]
             /\ UNCHANGED <<response, sent>>
        ELSE /\ Send(r, NotFoundResponse)
             /\ result' = [result EXCEPT ![r] = NoResult]
             /\ UNCHANGED <<clicks, trackingId>>
  /\ UNCHANGED <<clock, deleted, arrived, impressions, rid, path, url, goalId,
                 impTask, timer, calls, nextCalled, api>>

\* Variant: the visit is counted as an impression before the result is
\* looked at, so also for a code that is answered 404.
RecordClickReturns_ImpressionOnMiss(r) ==
  /\ pc[r] = "resolve"
  /\ LET res == RecordClickResult(ShortCode(path[r]), clicks + 1)
     IN IF res.found
        THEN /\ clicks' = clicks + 1
             /\ result' = [result EXCEPT ![r] = res]
             /\ \E hook \in BOOLEAN :
                  trackingId' = [trackingId EXCEPT ![r] =
                     IF hook THEN TrackingToken(res.clickId, res.urlId) ELSE ""]
             /\ pc' = [pc EXCEPT ![r] = "lookup"]
             /\ UNCHANGED <<response, sent, impTask>>
        ELSE /\ Send(r, NotFoundResponse)
             /\ result' = [result EXCEPT ![r] = NoResult]
             /\ impTask' = [impTask EXCEPT ![r] =
                   [st |-> "pending",
                    row |-> [req |-> rid[r], url_id |-> 0, ip_address |-> "10.0.0.1",
                             is_unique |-> TRUE, seen |-> {}]]]
             /\ UNCHANGED <<clicks, trackingId>>
  /\ UNCHANGED <<clock, deleted, arrived, impressions, rid, path, url, goalId,
                 timer, calls, nextCalled, api>>

\* Lines 136-151, 234-239: recordClickAndGetOriginalUrl returns.  With a
\* record the click row exists, setClickId (when the tracking middleware
\* installed it) derives the tracking id, and getUrlByShortCode is issued.
RecordClickReturns(r) ==
  /\ pc[r] = "resolve"
  /\ LET res == RecordClickResult(ShortCode(path[r]), clicks + 1)
     IN IF res.found
        THEN /\ clicks' = clicks + 1
             /\ result' = [result EXCEPT ![r] = res]
             /\ \E hook \in BOOLEAN :
                  trackingId' = [trackingId EXCEPT ![r] =
                     IF hook THEN TrackingToken(res.clickId, res.urlId) ELSE ""]
             /\ pc' = [pc EXCEPT ![r] = "lookup"]
             /\ UNCHANGED <<response, sent>>
        ELSE /\ Send(r, NotFoundResponse)
             /\ result' = [result EXCEPT ![r] = NoResult]
             /\ UNCHANGED <<clicks, trackingId>>
  /\ UNCHANGED <<clock, deleted, arrived, impressions, rid, path, url, goalId,
                 impTask, timer, calls, nextCalled, api>>

\* Variant: a failed click recording is not fatal, the visitor is sent on.
RecordClickThrows_Redirects(r) ==
  /\ pc[r] = "resolve"
  /\ Send(r, RedirectResponse(302, <<"https://example.com/">>))
  /\ UNCHANGED <<clock, deleted, arrived, clicks, impressions, rid, path, result,
                 trackingId, url, goalId, impTask, timer, calls, nextCalled, api>>

\* Variant: a failed click recording is answered like an unknown code.
RecordClickThrows_NotFound(r) ==
  /\ pc[r] = "resolve"
  /\ Send(r, NotFoundResponse)
  /\ UNCHANGED <<clock, deleted, arrived, clicks, impressions, rid, path, result,
                 trackingId, url, goalId, impTask, timer, calls, nextCalled, api>>

\* Lines 136, 240-248: recordClickAndGetOriginalUrl throws.
RecordClickThrows(r) ==
  /\ pc[r] = "resolve"
  /\ \E error \in ErrorMessages : Send(r, ErrorResponse(error))
  /\ UNCHANGED <<clock, deleted, arrived, clicks, impressions, rid, path, result,
                 trackingId, url, goalId, impTask, timer, calls, nextCalled, api>>

\* Lines 151-176: getUrlByShortCode returns and hasRecentImpression is issued.
LookupReturns(r) ==
  /\ pc[r] = "lookup"
  /\ url' = [url EXCEPT ![r] = GetUrlByShortCode(ShortCode(path[r]))]
  /\ UNCHANGED goalId
  /\ pc' = [pc EXCEPT ![r] = "check"]
  /\ UNCHANGED <<clock, deleted, arrived, clicks, impressions, rid, path, result,
                 trackingId, impTask, timer, calls, response, sent, nextCalled, api>>

\* Lines 151, 240-248: getUrlByShortCode throws; the outer catch answers.
LookupThrows(r) ==
  /\ pc[r] = "lookup"
  /\ \E error \in ErrorMessages : Send(r, ErrorResponse(error))
  /\ UNCHANGED <<clock, deleted, arrived, clicks, impressions, rid, path, result,
                 trackingId, url, goalId, impTask, timer, calls, nextCalled, api>>

\* The addresses requests for a link come from.
VisitorsOf(urlId) == IF urlId = 1 THEN IPs ELSE {"10.0.0.1"}

\* The impression rows of a (link, address) pair.
PairRows(urlId, ip) ==
  {i \in impressions : i.url_id = urlId /\ i.ip_address = ip}

\* Lines 159, 176-202: hasRecentImpression returns for the visitor address
\* of the request; recordImpression is started without being awaited and
\* getGoalsByUrlId is issued.  seen is history: the requests whose rows of
\* this pair were stored when the check ran.
CheckReturns(r, ip) ==
  /\ pc[r] = "check"
  /\ ip \in VisitorsOf(result[r].urlId)
  /\ impTask' = [impTask EXCEPT ![r] =
        [st |-> "pending",
         row |-> [req |-> rid[r],
                  url_id |-> result[r].urlId,
                  ip_address |-> ip,
                  is_unique |-> IsUnique(HasRecentImpression(result[r].urlId, ip)),
                  seen |-> {i.req : i \in PairRows(result[r].urlId, ip)}]]]
  /\ pc' = [pc EXCEPT ![r] = "goals"]
  /\ UNCHANGED <<clock, deleted, arrived, clicks, impressions, rid, path, result,
                 trackingId, url, goalId, timer, calls, response, sent, nextCalled, api>>

\* Variant: without the inner catch the throw reaches the outer catch.
CheckThrows_Propagates(r) ==
  /\ pc[r] = "check"
  /\ impTask' = [impTask EXCEPT ![r] = [st |-> "skipped"]]
  /\ Send(r, ServerErrorResponse)
  /\ UNCHANGED <<clock, deleted, arrived, clicks, impressions, rid, path, result,
                 trackingId, url, goalId, timer, calls, nextCalled, api>>

\* Variant: the inner catch stores an impression row for the request.
CheckThrows_RecordsAnyway(r) ==
  /\ pc[r] = "check"
  /\ impTask' = [impTask EXCEPT ![r] = [st |-> "skipped"]]
  /\ impressions' = impressions \cup
        {[req |-> rid[r], url_id |-> result[r].urlId,
          ip_address |-> CHOOSE ip \in IPs : TRUE,
          is_unique |-> TRUE, seen |-> {}, timestamp |-> clock]}
  /\ pc' = [pc EXCEPT ![r] = "goals"]
  /\ UNCHANGED <<clock, deleted, arrived, clicks, rid, path, result,
                 trackingId, url, goalId, timer, calls, response, sent, nextCalled, api>>

\* Lines 176, 194-202: hasRecentImpression throws; the inner catch logs and
\* the handler goes on to the goals lookup.
CheckThrows(r) ==
  /\ pc[r] = "check"
  /\ impTask' = [impTask EXCEPT ![r] = [st |-> "skipped"]]
  /\ pc' = [pc EXCEPT ![r] = "goals"]
  /\ UNCHANGED <<clock, deleted, arrived, clicks, impressions, rid, path, result,
                 trackingId, url, goalId, timer, calls, response, sent, nextCalled, api>>

\* The row recordImpression stores for the arguments it was called with.
StoredRow(row) ==
  [req |-> row.req, url_id |-> row.url_id, ip_address |-> row.ip_address,
   is_unique |-> row.is_unique, seen |-> row.seen, timestamp |-> clock]

\* Lines 179-190: the detached insert succeeds, the row is stored.
ImpressionResolved(r) ==
  /\ impTask[r].st = "pending"
  /\ impressions' = impressions \cup {StoredRow(impTask[r].row)}
  /\ impTask' = [impTask EXCEPT ![r] = [st |-> "ok"]]
  /\ UNCHANGED <<clock, deleted, arrived, clicks, rid, path, pc, result, trackingId,
                 url, goalId, timer, calls, response, sent, nextCalled, api>>

\* Variant: the rejection of the insert is answered with the 500 response.
ImpressionRejected_Answers(r) ==
  /\ impTask[r].st = "pending"
  /\ impTask' = [impTask EXCEPT ![r] = [st |-> "failed"]]
  /\ response' = [response EXCEPT ![r] = ServerErrorResponse]
  /\ sent' = [sent EXCEPT ![r] = @ + 1]
  /\ UNCHANGED <<clock, deleted, arrived, clicks, impressions, rid, path, pc, result,
                 trackingId, url, goalId, timer, calls, nextCalled, api>>

\* Lines 191-193: the detached insert fails, the rejection is logged.
ImpressionRejected(r) ==
  /\ impTask[r].st = "pending"
  /\ impTask' = [impTask EXCEPT ![r] = [st |-> "failed"]]
  /\ UNCHANGED <<clock, deleted, arrived, clicks, impressions, rid, path, pc, result,
                 trackingId, url, goalId, timer, calls, response, sent, nextCalled, api>>

\* Variant: autoTrackConversion is called on the spot, without setTimeout.
Finish_CallsAtOnce(r, gid) ==
  /\ timer' = [timer EXCEPT ![r] = NoTask]
  /\ calls' = [calls EXCEPT ![r] =
        IF ShouldSchedule(trackingId[r], gid)
        THEN Append(@, [tracking_id |-> trackingId[r], goal_id |-> gid])
        ELSE @]
  /\ goalId' = [goalId EXCEPT ![r] = gid]
  /\ Send(r, RedirectResponse(RedirectType(url[r]),
                              BuildRedirectUrl(result[r].originalUrl, trackingId[r])))
  /\ UNCHANGED <<clock, deleted, arrived, clicks, impressions, rid, path, result,
                 trackingId, url, impTask, nextCalled, api>>

\* Lines 152, 203-231: the redirect type is chosen, the Location is built, the attribution timer is armed when
\* there is a tracking id and a goal, and the redirect is sent.
Finish(r, gid) ==
  /\ timer' = [timer EXCEPT ![r] =
        IF ShouldSchedule(trackingId[r], gid)
        THEN [st |-> "armed"]
        ELSE NoTask]
  /\ goalId' = [goalId EXCEPT ![r] = gid]
  /\ Send(r, RedirectResponse(RedirectType(url[r]),
                              BuildRedirectUrl(result[r].originalUrl, trackingId[r])))
  /\ UNCHANGED <<clock, deleted, arrived, clicks, impressions, rid, path, result,
                 trackingId, url, impTask, calls, nextCalled, api>>

\* Lines 202-207: getGoalsByUrlId returns.
GoalsReturns(r) ==
  /\ pc[r] = "goals"
  /\ Finish(r, FirstGoalId(GetGoalsByUrlId(result[r].urlId)))

\* Variant: without the inner catch the throw reaches the outer catch.
GoalsThrows_Propagates(r) ==
  /\ pc[r] = "goals"
  /\ Send(r, ServerErrorResponse)
  /\ UNCHANGED <<clock, deleted, arrived, clicks, impressions, rid, path, result,
                 trackingId, url, goalId, impTask, timer, calls, nextCalled, api>>

\* Lines 200, 208-210: getGoalsByUrlId throws, goalId stays null.
GoalsThrows(r) ==
  /\ pc[r] = "goals"
  /\ Finish(r, 0)

\* Response bodies of POST /api/v1/conversions: the complete answer, an
\* answer without the data member, an error answer, and text that is cut off.
BodyFull == "{\"data\":{\"conversion_id\":5}}"
BodyNoData == "{\"status\":200}"
BodyMessage == "{\"message\":\"goal not found\"}"
BodyCut == "{\"data\":{\"conv"

\* What the outbound POST can come to: a response (status, body) or a
\* connection error.
AttributionOutcomes ==
  {[kind |-> "response", statusCode |-> 201, body |-> BodyFull],
   [kind |-> "response", statusCode |-> 200, body |-> BodyNoData],
   [kind |-> "response", statusCode |-> 200, body |-> BodyCut],
   [kind |-> "response", statusCode |-> 404, body |-> BodyMessage],
   [kind |-> "response", statusCode |-> 502, body |-> BodyCut],
   [kind |-> "error"]}

\* Line 74: JSON.parse(data) of the bodies above; it throws on cut-off text.
JsonParse(body) ==
  CASE body = BodyFull -> [ok |-> TRUE, value |-> [data |-> [conversion_id |-> 5]]]
    [] body = BodyNoData -> [ok |-> TRUE, value |-> [status |-> 200]]
    [] body = BodyMessage -> [ok |-> TRUE, value |-> [message |-> "goal not found"]]
    [] OTHER -> [ok |-> FALSE]

LogInfo(text) == [level |-> "info", text |-> text]
LogError(text) == [level |-> "error", text |-> text]

\* Lines 40-105: what autoTrackConversion logs and how its promise settles.
\* result.data.conversion_id throws when the parsed body has no data.
AutoTrackConversion(outcome) ==
  IF outcome.kind = "error"
  THEN [log |-> <<LogError("Error sending conversion request")>>,
        settled |-> "rejected"]
  ELSE LET parsed == JsonParse(outcome.body)
           is2xx == outcome.statusCode >= 200 /\ outcome.statusCode < 300
       IN IF ~parsed.ok \/ (is2xx /\ "data" \notin DOMAIN parsed.value)
          THEN [log |-> <<LogError("Error parsing conversion response")>>,
                settled |-> "rejected"]
          ELSE IF is2xx
          THEN [log |-> <<LogInfo("Conversion tracked successfully")>>,
                settled |-> "resolved"]
          ELSE [log |-> <<LogError("Error tracking conversion")>>,
                settled |-> "resolved"]

\* Variant: the call is made without the .catch of line 223.
TrackDetached_NoCatch(outcome) ==
  LET p == AutoTrackConversion(outcome)
  IN [log |-> p.log, escaped |-> (p.settled = "rejected")]

\* Lines 222-226: the timer callback; a rejection is logged by .catch and
\* goes no further.
TrackDetached(outcome) ==
  LET p == AutoTrackConversion(outcome)
  IN [log |-> IF p.settled = "rejected"
              THEN Append(p.log, LogError("Error in auto-tracking conversion"))
              ELSE p.log,
      escaped |-> FALSE]

\* How the task ended, by what it logged.
TaskState(run) ==
  IF run.escaped THEN "escaped"
  ELSE IF \E i \in 1..Len(run.log) : run.log[i].level = "error" THEN "error"
  ELSE "success"

\* Variant: the timer is an interval, it stays armed after the first call.
TimerFires_Repeats(r, outcome) ==
  /\ timer[r].st = "armed"
  /\ Len(calls[r]) < 2
  /\ calls' = [calls EXCEPT ![r] =
        Append(@, [tracking_id |-> trackingId[r], goal_id |-> goalId[r]])]
  /\ UNCHANGED <<clock, deleted, arrived, clicks, impressions, rid, path, pc, result,
                 trackingId, url, goalId, impTask, timer, response, sent, nextCalled, api>>

\* Lines 222-226, 40-105: the timer fires and autoTrackConversion posts
\* {tracking_id, goal_id}; whatever the outcome, it is only logged.
TimerFires(r, outcome) ==
  /\ timer[r].st = "armed"
  /\ calls' = [calls EXCEPT ![r] =
        Append(@, [tracking_id |-> trackingId[r], goal_id |-> goalId[r]])]
  /\ LET run == TrackDetached(outcome)
     IN timer' = [timer EXCEPT ![r] =
          [st |-> TaskState(run), post |-> outcome, log |-> run.log]]
  /\ UNCHANGED <<clock, deleted, arrived, clicks, impressions, rid, path, pc, result,
                 trackingId, url, goalId, impTask, response, sent, nextCalled, api>>

\* urlRoutes.ts 1329: another request soft-deletes a link.
SoftDelete(l) ==
  /\ l \in Deletable \ deleted
  /\ deleted' = deleted \cup {l}
  /\ UNCHANGED <<clock, arrived, clicks, impressions, rid, path, pc, result, trackingId,
                 url, goalId, impTask, timer, calls, response, sent, nextCalled, api>>

\* Time passes.  A request is handled within milliseconds and a tick is
\* TickMinutes long, so the clock moves between requests, not inside one;
\* only distances between timestamps matter, so it starts with the first row.
Tick ==
  /\ clock + TickMinutes <= MaxTicks * TickMinutes
  /\ \A r \in Reqs : Ended(r)
  /\ impressions # {}
  /\ clock' = clock + TickMinutes
  /\ UNCHANGED <<deleted, arrived, clicks, impressions, rid, path, pc, result, trackingId,
                 url, goalId, impTask, timer, calls, response, sent, nextCalled, api>>

Next ==
  \/ \E r \in Reqs, p \in Paths : Arrive(r, p)
  \/ \E r \in Reqs : RecordClickReturns(r)
  \/ \E r \in Reqs : RecordClickThrows(r)
  \/ \E r \in Reqs : LookupReturns(r)
  \/ \E r \in Reqs : LookupThrows(r)
  \/ \E r \in Reqs, ip \in IPs : CheckReturns(r, ip)
  \/ \E r \in Reqs : CheckThrows(r)
  \/ \E r \in Reqs : ImpressionResolved(r)
  \/ \E r \in Reqs : ImpressionRejected(r)
  \/ \E r \in Reqs : GoalsReturns(r)
  \/ \E r \in Reqs : GoalsThrows(r)
  \/ \E r \in Reqs, o \in AttributionOutcomes : TimerFires(r, o)
  \/ \E l \in LinkIds : SoftDelete(l)
  \/ Tick

Spec == Init /\ [][Next]_vars

\* The store answers the calls of the main chain (click recording, link
\* lookup, goals lookup) and the event loop runs due timers.  Nothing is
\* assumed of the impression store: its operations may never return.
Answered(r) ==
  \/ RecordClickReturns(r) \/ RecordClickThrows(r)
  \/ LookupReturns(r) \/ LookupThrows(r)
  \/ GoalsReturns(r) \/ GoalsThrows(r)

Fired(r) == \E o \in AttributionOutcomes : TimerFires(r, o)

FairSpec ==
  /\ Spec
  /\ \A r \in Reqs : WF_vars(Answered(r))
  /\ \A r \in Reqs : WF_vars(Fired(r))

\* Only what the event loop itself guarantees: a due timer runs.
TimerSpec == Spec /\ \A r \in Reqs : WF_vars(Fired(r))

\* ------------------------------------------- urlController (urlRoutes.ts)
\* JavaScript values the controllers compute with.  Texts that the code
\* inspects character by character are sequences of characters.
Undefined == [t |-> "undefined"]
NaN == [t |-> "number", nan |-> TRUE]
Num(n) == [t |-> "number", nan |-> FALSE, n |-> n]
Str(s) == [t |-> "string", text |-> s]

IsNaN(v) == v.t = "number" /\ v.nan

\* a || b: b replaces undefined, NaN and 0.  (No text used here is empty.)
Falsy(v) ==
  \/ v.t = "undefined"
  \/ IsNaN(v)
  \/ (v.t = "number" /\ ~v.nan /\ v.n = 0)

OrElse(v, d) == IF Falsy(v) THEN d ELSE v

\* a ?? b: b replaces undefined (and null) only, never a number.
Coalesce(v, d) == IF v.t = "undefined" THEN d ELSE v

IsDigit(c) == c \in {"0", "1", "2", "3", "4", "5", "6", "7", "8", "9"}
DigitValue(c) == CHOOSE d \in 0..9 : ToString(d) = c

RECURSIVE Decimal(_)
Decimal(ds) ==
  IF ds = <<>> THEN 0
  ELSE 10 * Decimal(SubSeq(ds, 1, Len(ds) - 1)) + DigitValue(ds[Len(ds)])

\* The longest prefix of s made of digits.
LeadingDigits(s) ==
  LET k == CHOOSE j \in 0..Len(s) :
             /\ \A i \in 1..j : IsDigit(s[i])
             /\ (j = Len(s) \/ ~IsDigit(s[j + 1]))
  IN SubSeq(s, 1, k)

RECURSIVE TrimStart(_)
TrimStart(s) == IF s # <<>> /\ s[1] = " " THEN TrimStart(Tail(s)) ELSE s

RECURSIVE TrimEnd(_)
TrimEnd(s) ==
  IF s # <<>> /\ s[Len(s)] = " " THEN TrimEnd(SubSeq(s, 1, Len(s) - 1)) ELSE s

\* parseInt(v): leading blanks are skipped, a sign and the digits that
\* follow are read, the rest is ignored; NaN when no digit is read, as for
\* undefined.  (No text used here starts with 0x.)
ParseInt(v) ==
  IF v.t # "string" THEN NaN
  ELSE LET s == TrimStart(v.text)
           signed == s # <<>> /\ s[1] \in {"-", "+"}
           ds == LeadingDigits(IF signed THEN Tail(s) ELSE s)
       IN IF ds = <<>> THEN NaN
          ELSE Num(IF signed /\ s[1] = "-" THEN 0 - Decimal(ds) ELSE Decimal(ds))

RECURSIVE Pow10(_)
Pow10(e) == IF e = 0 THEN 1 ELSE 10 * Pow10(e - 1)

\* Number(text) for texts of digits and letters: the whole text must be a
\* numeral (decimal digits, optionally followed by e and an exponent); the
\* empty text is 0; anything else is NaN.
ToNumber(text) ==
  LET s == TrimEnd(TrimStart(text))
      m == LeadingDigits(s)
      rest == SubSeq(s, Len(m) + 1, Len(s))
  IN IF s = <<>> THEN Num(0)
     ELSE IF m = <<>> THEN NaN
     ELSE IF rest = <<>> THEN Num(Decimal(m))
     ELSE IF /\ rest[1] \in {"e", "E"}
             /\ Len(rest) > 1
             /\ \A i \in 2..Len(rest) : IsDigit(rest[i])
     THEN Num(Decimal(m) * Pow10(Decimal(Tail(rest))))
     ELSE NaN

NumSub(a, b) == IF IsNaN(a) \/ IsNaN(b) THEN NaN ELSE Num(a.n - b.n)
NumAdd(a, b) == IF IsNaN(a) \/ IsNaN(b) THEN NaN ELSE Num(a.n + b.n)
NumMul(a, b) == IF IsNaN(a) \/ IsNaN(b) THEN NaN ELSE Num(a.n * b.n)
MathMin(a, b) == IF IsNaN(a) \/ IsNaN(b) THEN NaN ELSE Num(IF a.n < b.n THEN a.n ELSE b.n)

\* Math.ceil(total / limit) for total >= 0 and limit # 0.
CeilDiv(total, limit) ==
  IF IsNaN(limit) THEN NaN
  ELSE IF limit.n > 0 THEN Num((total + limit.n - 1) \div limit.n)
  ELSE Num(0 - (total \div (0 - limit.n)))

\* Array.prototype.slice(start, end): NaN counts as 0, a negative index
\* counts from the end, indexes are clamped to the length.
SliceIndex(v, len) ==
  IF IsNaN(v) THEN 0
  ELSE IF v.n < 0 THEN (IF len + v.n < 0 THEN 0 ELSE len + v.n)
  ELSE IF v.n > len THEN len ELSE v.n

Slice(q, start, end) ==
  SubSeq(q, SliceIndex(start, Len(q)) + 1, SliceIndex(end, Len(q)))

\* JSON.stringify of a number: NaN is written as null.
JsonNumber(v) == IF IsNaN(v) THEN [t |-> "null"] ELSE v

\* sendResponse(res, status, message, data?, pagination?)
SendResponse(status, message, data) ==
  [status |-> status, message |-> message, data |-> data]

\* ---- getTotalClicksAnalytics
\* Dates are day numbers (1 is 2024-01-01); Today is the day of new Date().
Today == 100
DefaultPeriodDays == 30
DefaultLimit == 30
LimitCap == 90

\* new Date(text).getTime() in days; NaN for a text that is no date.
DateOf(v) ==
  CASE v.text = "2024-02-01" -> Num(32)
    [] v.text = "2024-02-10" -> Num(41)
    [] v.text = "2024-02-20" -> Num(51)
    [] v.text = "2024-03-01" -> Num(61)
    [] v.text = "2024-03-10" -> Num(70)
    [] OTHER -> NaN

\* Lines 1519-1550.
ParseAnalyticsDates(startDateString, endDateString) ==
  LET startDate == IF ~Falsy(startDateString) THEN DateOf(startDateString)
                   ELSE Num(Today - DefaultPeriodDays)
      endDate == IF ~Falsy(endDateString) THEN DateOf(endDateString) ELSE Num(Today)
  IN IF IsNaN(startDate)
     THEN [error |-> "Invalid start_date format. Use YYYY-MM-DD"]
     ELSE IF IsNaN(endDate)
     THEN [error |-> "Invalid end_date format. Use YYYY-MM-DD"]
     ELSE IF endDate.n < startDate.n
     THEN [error |-> "end_date must be after start_date"]
     ELSE [startDate |-> startDate.n, endDate |-> endDate.n]

Custom == <<"c", "u", "s", "t", "o", "m">>
StandardPeriods == {7, 14, 30, 90}

\* Line 1594: parseInt(comparison) || 30.
ComparisonDays(comparison) == OrElse(ParseInt(comparison), Num(DefaultPeriodDays))

\* Lines 1561-1609.
DetermineComparisonPeriod(comparison, startDate, customStartString, customEndString) ==
  IF comparison.text = Custom
  THEN IF Falsy(customStartString) \/ Falsy(customEndString)
       THEN [error |-> "custom_comparison_start and custom_comparison_end are required when comparison=custom"]
       ELSE LET previousPeriodStartDate == DateOf(customStartString)
                previousPeriodEndDate == DateOf(customEndString)
            IN IF IsNaN(previousPeriodStartDate) \/ IsNaN(previousPeriodEndDate)
               THEN [error |-> "Invalid custom comparison date format. Use YYYY-MM-DD"]
               ELSE IF previousPeriodEndDate.n < previousPeriodStartDate.n
               THEN [error |-> "custom_comparison_end must be after custom_comparison_start"]
               ELSE [comparisonPeriodDays |->
                       previousPeriodEndDate.n - previousPeriodStartDate.n + 1,
                     previousPeriodStartDate |-> previousPeriodStartDate.n,
                     previousPeriodEndDate |-> previousPeriodEndDate.n]
  ELSE LET comparisonPeriodDays == ComparisonDays(comparison)
       IN IF IsNaN(comparisonPeriodDays) \/ comparisonPeriodDays.n \notin StandardPeriods
          THEN [error |-> "comparison must be one of: 7, 14, 30, 90, custom"]
          ELSE [comparisonPeriodDays |-> comparisonPeriodDays.n,
                previousPeriodStartDate |-> startDate - 1 - (comparisonPeriodDays.n - 1),
                previousPeriodEndDate |-> startDate - 1]

\* clickModel.getTotalClicksAnalytics(userId, options): a series of n points.
MaxSeries == 3
Series(n) == [i \in 1..n |-> [date |-> i, total_clicks |-> (i * 7) % 5]]

\* Lines 1685-1806: the response of getTotalClicksAnalytics for a call
\* c = [user, query, series, storeFails].  Of the response data, the
\* periods and the time series are kept; the summary figures are left out.
GetTotalClicksAnalyticsResponse(c) ==
  LET comparison == Coalesce(c.query.comparison, Str(<<"3", "0">>))
      page == Coalesce(ParseInt(c.query.page), Num(1))
      limit == MathMin(OrElse(ParseInt(c.query.limit), Num(DefaultLimit)), Num(LimitCap))
      dateResult == ParseAnalyticsDates(c.query.start_date, c.query.end_date)
  IN IF c.user = 0 THEN SendResponse(401, "Unauthorized: No user ID", Undefined)
     ELSE IF "error" \in DOMAIN dateResult
     THEN SendResponse(400, dateResult.error, Undefined)
     ELSE
     LET comparisonResult ==
           DetermineComparisonPeriod(comparison, dateResult.startDate,
                                     c.query.custom_comparison_start,
                                     c.query.custom_comparison_end)
     IN IF "error" \in DOMAIN comparisonResult
        THEN SendResponse(400, comparisonResult.error, Undefined)
        ELSE IF c.storeFails
        THEN SendResponse(500, "Failed to retrieve total clicks analytics", Undefined)
        ELSE
        LET clicksAnalytics == Series(c.series)
            totalItems == Len(clicksAnalytics)
            offset == NumMul(NumSub(page, Num(1)), limit)
        IN SendResponse(200, "Successfully retrieved total clicks analytics",
             [analysis_period |->
                [start_date |-> dateResult.startDate,
                 end_date |-> dateResult.endDate,
                 days |-> dateResult.endDate - dateResult.startDate + 1],
              comparison |->
                [period_days |-> comparisonResult.comparisonPeriodDays,
                 start_date |-> comparisonResult.previousPeriodStartDate,
                 end_date |-> comparisonResult.previousPeriodEndDate],
              time_series |->
                [data |-> Slice(clicksAnalytics, offset, NumAdd(offset, limit)),
                 pagination |->
                   [total_items |-> totalItems,
                    total_pages |-> JsonNumber(CeilDiv(totalItems, limit)),
                    current_page |-> JsonNumber(page),
                    limit |-> JsonNumber(limit)]]])

\* The query texts tried.
PageTexts == {Undefined, Str(<<"1">>), Str(<<"2">>), Str(<<"0">>), Str(<<"x">>)}
LimitTexts == {Undefined, Str(<<"2">>), Str(<<"1", "0", "0">>)}
ComparisonTexts ==
  {Undefined, Str(<<"7">>), Str(<<"1", "4">>), Str(<<"3", "0">>), Str(<<"9", "0">>),
   Str(Custom), Str(<<"1", "5">>), Str(<<"a", "b", "c">>), Str(<<"7", "d", "a", "y", "s">>),
   Str(<<"0">>)}
StartDates == {Undefined, Str("2024-03-01"), Str("soon")}
EndDates == {Undefined, Str("2024-03-10"), Str("2024-02-20")}
CustomDates == {Undefined, Str("2024-02-01"), Str("2024-02-10"), Str("never")}

\* What the store does for a call: user 0 is a request without a user id.
StoreCases ==
  {[user |-> 0, storeFails |-> FALSE, series |-> 0],
   [user |-> 1, storeFails |-> TRUE, series |-> 0]}
    \cup {[user |-> 1, storeFails |-> FALSE, series |-> n] : n \in 0..MaxSeries}

AnalyticsQueries ==
  {q \in [page : PageTexts, limit : LimitTexts, comparison : ComparisonTexts,
          start_date : StartDates, end_date : EndDates,
          custom_comparison_start : CustomDates,
          custom_comparison_end : CustomDates] :
     (q.comparison # Str(Custom)) =>
        (q.custom_comparison_start = Undefined /\ q.custom_comparison_end = Undefined)}

AnalyticsCalls ==
  {[op |-> "getTotalClicksAnalytics", st |-> "called", user |-> s.user,
    query |-> q, series |-> s.series, storeFails |-> s.storeFails] :
     q \in AnalyticsQueries, s \in StoreCases}

\* The handler runs and answers.
GetTotalClicksAnalytics ==
  /\ api.op = "getTotalClicksAnalytics" /\ api.st = "called"
  /\ api' = [op |-> api.op, st |-> "answered", user |-> api.user, query |-> api.query,
             series |-> api.series, storeFails |-> api.storeFails,
             response |-> GetTotalClicksAnalyticsResponse(api)]
  /\ UNCHANGED <<clock, deleted, arrived, clicks, impressions, rid, pc, path, result,
                 trackingId, url, goalId, impTask, timer, calls, response, sent,
                 nextCalled>>

\* ---- getUrlDetails
\* The rows of the urls table the controllers look at.  user_id 0 is a
\* link without an owner.
UrlRows ==
  << [id |-> 1, short_code |-> <<"a", "b", "c">>, user_id |-> 1],
     [id |-> 2, short_code |-> <<"1">>, user_id |-> 1],
     [id |-> 3, short_code |-> <<"7", "7">>, user_id |-> 1],
     [id |-> 4, short_code |-> <<"2", "e", "0">>, user_id |-> 1],
     [id |-> 5, short_code |-> <<"x", "y", "z">>, user_id |-> 2],
     [id |-> 6, short_code |-> <<"q", "9">>, user_id |-> 0] >>

UrlIds == 1..Len(UrlRows)
NoRow == [found |-> FALSE]
Row(i) == [found |-> TRUE, id |-> UrlRows[i].id, short_code |-> UrlRows[i].short_code,
           user_id |-> UrlRows[i].user_id]

\* urlModel.getUrlById(id)
GetUrlById(id) ==
  IF \E i \in UrlIds : UrlRows[i].id = id
  THEN Row(CHOOSE i \in UrlIds : UrlRows[i].id = id)
  ELSE NoRow

\* urlModel.getUrlByShortCode(shortCode)
UrlModelGetUrlByShortCode(shortCode) ==
  IF \E i \in UrlIds : UrlRows[i].short_code = shortCode
  THEN Row(CHOOSE i \in UrlIds : UrlRows[i].short_code = shortCode)
  ELSE NoRow

\* Lines 1217-1228: the row the identifier is looked up as.
FindByIdentifier(identifier) ==
  LET number == ToNumber(identifier)
      isId == ~IsNaN(number)
  IN IF isId THEN GetUrlById(number.n) ELSE UrlModelGetUrlByShortCode(identifier)

\* Lines 1211-1295: the response of getUrlDetails for a call
\* c = [user, identifier, storeFails]; of the data, id and short code are kept.
GetUrlDetailsResponse(c) ==
  IF c.storeFails THEN SendResponse(500, "Internal Server Error", Undefined)
  ELSE LET u == FindByIdentifier(c.identifier)
       IN IF ~u.found THEN SendResponse(404, "URL not found", Undefined)
          ELSE IF u.user_id # 0 /\ u.user_id # c.user
          THEN SendResponse(401, "Unauthorized", Undefined)
          ELSE SendResponse(200, "Successfully retrieved URL",
                            [id |-> u.id, short_code |-> u.short_code])

Users == {1, 2}

\* Every short code and every id of the table, and two texts that are neither.
Identifiers ==
  {UrlRows[i].short_code : i \in UrlIds}
    \cup {<<ToString(i)>> : i \in UrlIds}
    \cup {<<"n", "o", "p", "e">>, <<"9", "9">>}

DetailsCalls ==
  {[op |-> "getUrlDetails", st |-> "called", user |-> u, identifier |-> i,
    storeFails |-> f] : u \in Users, i \in Identifiers, f \in BOOLEAN}

GetUrlDetails ==
  /\ api.op = "getUrlDetails" /\ api.st = "called"
  /\ api' = [op |-> api.op, st |-> "answered", user |-> api.user,
             identifier |-> api.identifier, storeFails |-> api.storeFails,
             response |-> GetUrlDetailsResponse(api)]
  /\ UNCHANGED <<clock, deleted, arrived, clicks, impressions, rid, pc, path, result,
                 trackingId, url, goalId, impTask, timer, calls, response, sent,
                 nextCalled>>

\* ---- getAllUrls
MaxUrls == 4
DefaultPage == 1
DefaultPageSize == 10

\* The i-th URL urlModel.getUrlsByUser returns, with the click count
\* clickModel.getClickCountByUrlId gives for it.  created_at is a day
\* number; title is the rank of the title in collation order, 0 for a
\* link without title.
UserUrl(i) ==
  [id |-> i, clicks |-> (i * 2) % 3, created_at |-> (i * 3) % 4, title |-> i % 3]

UserUrls(n) == [i \in 1..n |-> UserUrl(i)]

\* Lines 962-980: the comparator of the sort.
CompareUrls(a, b, sortBy, sortOrder) ==
  LET comparison ==
        IF sortBy = "clicks" THEN a.clicks - b.clicks
        ELSE IF sortBy = "created_at" THEN a.created_at - b.created_at
        ELSE IF sortBy = "title" THEN a.title - b.title
        ELSE a.created_at - b.created_at
  IN IF sortOrder = "asc" THEN comparison ELSE 0 - comparison

\* Array.prototype.sort is stable: an element goes behind every element
\* that does not compare greater.
InsertUrl(sorted, x, sortBy, sortOrder) ==
  LET k == Cardinality({i \in 1..Len(sorted) :
                          CompareUrls(sorted[i], x, sortBy, sortOrder) <= 0})
  IN SubSeq(sorted, 1, k) \o <<x>> \o SubSeq(sorted, k + 1, Len(sorted))

RECURSIVE SortUrls(_, _, _)
SortUrls(q, sortBy, sortOrder) ==
  IF q = <<>> THEN <<>>
  ELSE InsertUrl(SortUrls(SubSeq(q, 1, Len(q) - 1), sortBy, sortOrder),
                 q[Len(q)], sortBy, sortOrder)

\* Variant: the offset is taken from the page number itself.
PageOffset_FromPage(page, limit) == page * limit

\* Line 926: offset = (page - 1) * limit.
PageOffset(page, limit) == (page - 1) * limit

\* Lines 909-1013: the response of getAllUrls for a call
\* c = [user, query, count, storeFails].
GetAllUrlsResponse(c) ==
  LET page == OrElse(ParseInt(c.query.page), Num(DefaultPage))
      limit == OrElse(ParseInt(c.query.limit), Num(DefaultPageSize))
      sortBy == OrElse(c.query.sortBy, Str("created_at")).text
      sortOrder == OrElse(c.query.sortOrder, Str("desc")).text
      offset == Num(PageOffset(page.n, limit.n))
      urls == UserUrls(c.count)
  IN IF c.user = 0 THEN SendResponse(401, "Unauthorized: No user ID", Undefined)
     ELSE IF c.storeFails THEN SendResponse(500, "Failed to retrieve URLs", <<>>)
     ELSE IF Len(urls) = 0 THEN SendResponse(204, "No URLs are available", <<>>)
     ELSE LET sortedUrls == SortUrls(urls, sortBy, sortOrder)
              totalUrls == Len(sortedUrls)
          IN [status |-> 200, message |-> "Successfully retrieved all URLs",
              data |-> Slice(sortedUrls, offset, NumAdd(offset, limit)),
              pagination |->
                [total |-> totalUrls, page |-> page.n, limit |-> limit.n,
                 total_pages |-> CeilDiv(totalUrls, limit).n]]

ListPages == {Undefined, Str(<<"1">>), Str(<<"2">>), Str(<<"3">>), Str(<<"0">>),
              Str(<<"-", "1">>)}
ListLimits == {Undefined, Str(<<"2">>), Str(<<"3">>), Str(<<"-", "2">>)}
SortFields == {Undefined, Str("clicks"), Str("created_at"), Str("title"), Str("id")}
SortOrders == {Undefined, Str("asc"), Str("desc")}

ListCases ==
  {[user |-> 0, storeFails |-> FALSE, count |-> 0],
   [user |-> 1, storeFails |-> TRUE, count |-> 0]}
    \cup {[user |-> 1, storeFails |-> FALSE, count |-> n] : n \in 0..MaxUrls}

ListCalls ==
  {[op |-> "getAllUrls", st |-> "called", user |-> s.user,
    query |-> q, count |-> s.count, storeFails |-> s.storeFails] :
     q \in [page : ListPages, limit : ListLimits, sortBy : SortFields,
            sortOrder : SortOrders],
     s \in ListCases}

GetAllUrls ==
  /\ api.op = "getAllUrls" /\ api.st = "called"
  /\ api' = [op |-> api.op, st |-> "answered", user |-> api.user, query |-> api.query,
             count |-> api.count, storeFails |-> api.storeFails,
             response |-> GetAllUrlsResponse(api)]
  /\ UNCHANGED <<clock, deleted, arrived, clicks, impressions, rid, pc, path, result,
                 trackingId, url, goalId, impTask, timer, calls, response, sent,
                 nextCalled>>

\* ---- deleteUrl
\* urlModel.getUrlById(id) on a table whose rows in removed are soft-deleted.
GetLiveUrlById(id, removed) ==
  IF id \in removed THEN NoRow ELSE GetUrlById(id)

\* Lines 1304-1348: the response of deleteUrl and the soft-deleted rows it
\* leaves, for a call c = [user, id, removed, store]; store is what the
\* store does: it works, its lookup throws, or its update changes no row.
DeleteUrlOutcome(c) ==
  LET urlId == ParseInt(Str(c.id))
      keep(r) == [response |-> r, removed |-> c.removed]
  IN IF IsNaN(urlId) THEN keep(SendResponse(400, "Invalid URL ID", Undefined))
     ELSE IF c.store = "throws"
     THEN keep(SendResponse(500, "Internal Server Error", Undefined))
     ELSE LET u == GetLiveUrlById(urlId.n, c.removed)
          IN IF ~u.found THEN keep(SendResponse(404, "URL not found", Undefined))
             ELSE IF u.user_id # 0 /\ u.user_id # c.user
             THEN keep(SendResponse(401, "Unauthorized", Undefined))
             ELSE IF c.store = "no row changed"
             THEN keep(SendResponse(500, "Failed to delete URL", Undefined))
             ELSE [response |-> SendResponse(200, "Successfully deleted URL",
                                   [id |-> u.id, short_code |-> u.short_code]),
                   removed |-> c.removed \cup {urlId.n}]

\* The ids asked for: every id of the table, an id of no row, a text that
\* is no number and a text that starts with a number.
DeleteIds ==
  {<<ToString(i)>> : i \in UrlIds}
    \cup {<<"9">>, <<"x">>, <<"3", "x">>}

DeleteCalls ==
  {[op |-> "deleteUrl", st |-> "called", user |-> u, id |-> i, removed |-> d,
    store |-> o] :
     u \in Users, i \in DeleteIds, d \in {{}, {1}, {5}},
     o \in {"works", "throws", "no row changed"}}

DeleteUrl ==
  /\ api.op = "deleteUrl" /\ api.st = "called"
  /\ LET out == DeleteUrlOutcome(api)
     IN api' = [op |-> api.op, st |-> "answered", user |-> api.user, id |-> api.id,
                removed |-> api.removed, store |-> api.store,
                response |-> out.response, removedAfter |-> out.removed]
  /\ UNCHANGED <<clock, deleted, arrived, clicks, impressions, rid, pc, path, result,
                 trackingId, url, goalId, impTask, timer, calls, response, sent,
                 nextCalled>>

\* ---- the controllers taken by themselves: a call arrives with its query
\* and the answers of the store, and the handler answers it.
ControllerInit ==
  /\ api \in AnalyticsCalls \cup DetailsCalls \cup ListCalls \cup DeleteCalls
  /\ clock = 0 /\ deleted = {} /\ arrived = 0 /\ clicks = 0 /\ impressions = {}
  /\ rid = [r \in Reqs |-> 0]
  /\ pc = [r \in Reqs |-> "idle"]
  /\ path = [r \in Reqs |-> <<>>]
  /\ result = [r \in Reqs |-> Unassigned]
  /\ trackingId = [r \in Reqs |-> ""]
  /\ url = [r \in Reqs |-> Unassigned]
  /\ goalId = [r \in Reqs |-> 0]
  /\ impTask = [r \in Reqs |-> NoTask]
  /\ timer = [r \in Reqs |-> NoTask]
  /\ calls = [r \in Reqs |-> <<>>]
  /\ response = [r \in Reqs |-> NoResponse]
  /\ sent = [r \in Reqs |-> 0]
  /\ nextCalled = [r \in Reqs |-> 0]

ControllerNext ==
  \/ GetTotalClicksAnalytics
  \/ GetUrlDetails
  \/ GetAllUrls
  \/ DeleteUrl

ControllerSpec == ControllerInit /\ [][ControllerNext]_vars

\* --------------------------------------------------------------- properties
Range(q) == {q[i] : i \in 1..Len(q)}

InternalServerError ==
  [kind |-> "json", status |-> 500,
   body |-> [status |-> 500, message |-> "Internal Server Error"]]

\* The Location the handler builds from what it holds: the separator is "&"
\* when the destination contains a "?" and "?" otherwise.
LocationFor(dest, t) ==
  IF t = "" THEN dest
  ELSE dest \o << IF "?" \in Range(dest) THEN "&" ELSE "?",
                  "utm_source=cylink&utm_medium=shortlink&utm_campaign=conversion&utm_content=",
                  t >>

StatusFor(u) == IF u.found /\ u.redirect_type = "301" THEN 301 ELSE 302

\* C1 as stated: every request whose short code resolves ends in exactly one
\* 3xx redirect, 301 if the link's stored redirect_type is '301', else 302.
C1_Original ==
  \A r \in Reqs :
    (result[r].found /\ pc[r] = "done") =>
       /\ sent[r] = 1
       /\ response[r].kind = "redirect"
       /\ response[r].status =
            (IF LinkTable[result[r].urlId].redirect_type = "301" THEN 301 ELSE 302)

\* C1 amended: a request whose short code resolves gets at most one response,
\* and none before its handler ends; when getUrlByShortCode threw it is the
\* 500 response, otherwise it is a redirect with status 301 if the record the
\* lookup returned has redirect_type '301' and 302 otherwise (also when the
\* lookup returned no record).
C1_RedirectByLookup ==
  \A r \in Reqs :
    /\ sent[r] <= 1
    /\ (pc[r] # "done") => sent[r] = 0
    /\ (result[r].found /\ pc[r] = "done") =>
         /\ sent[r] = 1
         /\ IF url[r] = Unassigned
            THEN response[r] = InternalServerError
            ELSE /\ response[r].kind = "redirect"
                 /\ response[r].status = StatusFor(url[r])

C1_Witness ==
  \E r, q \in Reqs :
    /\ pc[r] = "done" /\ result[r].found /\ url[r].found
    /\ response[r].kind = "redirect" /\ response[r].status = 301
    /\ pc[q] = "done" /\ result[q].found /\ url[q].found
    /\ response[q].kind = "redirect" /\ response[q].status = 302

\* C2: when recordClickAndGetOriginalUrl returns no record, the response is
\* 404 with body {status: 404, message: 'Short URL not found or has expired'}
\* and nothing else is sent.
C2_NotFound ==
  \A r \in Reqs :
    (result[r] = NoResult) =>
       /\ pc[r] = "done"
       /\ sent[r] = 1
       /\ response[r] =
            [kind |-> "json", status |-> 404,
             body |-> [status |-> 404,
                       message |-> "Short URL not found or has expired"]]

\* A request for link 1 after its soft deletion, answered 404, next to a
\* request for the deactivated link answered 404.
C2_Witness ==
  \E r, q \in Reqs :
    /\ result[r] = NoResult /\ path[r] = <<"/", "c", "1">> /\ 1 \in deleted
    /\ response[r].status = 404
    /\ result[q] = NoResult /\ path[q] = <<"/", "d", "5">>
    /\ response[q].status = 404

\* C3: a request whose impression insert was rejected, or whose attribution
\* call failed, has the redirect that the link, the lookup result and the
\* tracking id determine, the one it has when both calls succeed.
C3_FailuresIsolated ==
  \A r \in Reqs :
    (pc[r] = "done" /\ (impTask[r].st = "failed" \/ timer[r].st = "error")) =>
       /\ sent[r] = 1
       /\ response[r] =
            [kind |-> "redirect",
             status |-> StatusFor(url[r]),
             location |-> LocationFor(LinkTable[result[r].urlId].original_url,
                                      trackingId[r])]

C3_Witness ==
  \E r \in Reqs :
    /\ pc[r] = "done"
    /\ impTask[r].st = "failed"
    /\ timer[r].st = "error"
    /\ response[r].kind = "redirect"

\* C4 as stated: once the recent-impression check of a resolved request is
\* outstanding, the redirect is sent whether or not the check ever returns.
C4_RedirectNeverWaits ==
  \A r \in Reqs : (pc[r] = "check") ~> (response[r].kind = "redirect")


SamePair(a, b) == a.url_id = b.url_id /\ a.ip_address = b.ip_address

\* C5 as stated: of two requests of one (link, IP) pair, the later one made
\* within 30 minutes of the earlier has its impression stored non-unique; a
\* request with no impression of the pair in its trailing 30 minutes has its
\* impression stored unique.
C5_Original ==
  /\ \A a, b \in impressions :
       (SamePair(a, b) /\ a.req < b.req
          /\ b.timestamp >= a.timestamp
          /\ b.timestamp - a.timestamp < WindowMinutes) => ~b.is_unique
  /\ \A b \in impressions :
       (~\E a \in impressions \ {b} :
            SamePair(a, b) /\ a.timestamp <= b.timestamp
              /\ a.timestamp > b.timestamp - WindowMinutes) => b.is_unique

\* The rows stored so far together with the rows of the inserts under way.
RowsDecided ==
  impressions \cup
  {StoredRow(impTask[r].row) : r \in {q \in Reqs : impTask[q].st = "pending"}}

\* C5 amended: an impression is recorded with is_unique=false exactly when a
\* row of the same (link, IP) pair with a timestamp in the trailing 30
\* minutes was already stored when its recent-impression check ran, and with
\* is_unique=true otherwise (also when an earlier request of the pair has its
\* insert still under way, or lost it).
C5_UniqueByStoredRows ==
  \A b \in RowsDecided :
    b.is_unique =
      ~(\E a \in impressions :
           /\ a.req \in b.seen
           /\ SamePair(a, b)
           /\ a.timestamp > b.timestamp - WindowMinutes)

\* Second request one tick after the first, stored non-unique.
C5_Witness ==
  \E a, b \in impressions :
    /\ SamePair(a, b)
    /\ a.req \in b.seen
    /\ b.timestamp = a.timestamp + TickMinutes
    /\ a.is_unique /\ ~b.is_unique

\* C6: two unique impressions of one (link, IP) pair less than 30 minutes
\* apart exist only for requests that overlapped: neither check saw the
\* other's row.  (That such a state is reachable is C6_Witness.)
C6_DoubleUniqueOnlyByOverlap ==
  \A a, b \in impressions :
    (a.req # b.req /\ SamePair(a, b) /\ a.is_unique /\ b.is_unique
       /\ a.timestamp - b.timestamp < WindowMinutes
       /\ b.timestamp - a.timestamp < WindowMinutes)
    => (a.req \notin b.seen /\ b.req \notin a.seen)

C6_Witness ==
  \E a, b \in impressions :
    /\ a.req # b.req /\ SamePair(a, b)
    /\ a.is_unique /\ b.is_unique
    /\ a.timestamp - b.timestamp < WindowMinutes
    /\ b.timestamp - a.timestamp < WindowMinutes

\* A destination has a query string when a "?" comes before any "#".
HasQueryString(u) ==
  \E i \in 1..Len(u) : u[i] = "?" /\ \A j \in 1..(i - 1) : u[j] # "#"

C8_OnlyWithGoalAndTracking ==
  \A r \in Reqs :
    /\ (trackingId[r] = "" \/ goalId[r] = 0) =>
          (calls[r] = <<>> /\ timer[r].st = "none")
    /\ (goalId[r] # 0) => LinkTable[result[r].urlId].goals # <<>>

\* One request ended with a goal but no tracking id, the other with a
\* tracking id but no goal; neither has a call.
C8_Witness ==
  \E r, q \in Reqs :
    /\ pc[r] = "done" /\ response[r].kind = "redirect"
    /\ goalId[r] # 0 /\ trackingId[r] = "" /\ calls[r] = <<>>
    /\ pc[q] = "done" /\ response[q].kind = "redirect"
    /\ goalId[q] = 0 /\ trackingId[q] # "" /\ calls[q] = <<>>

\* C9: a request that found a goal and has a tracking id gets its attribution
\* call started, and never more than one.
C9_CalledOnce ==
  /\ [](\A r \in Reqs : Len(calls[r]) <= 1)
  /\ \A r \in Reqs :
       (pc[r] = "done" /\ goalId[r] # 0 /\ trackingId[r] # "")
          ~> (Len(calls[r]) = 1)

C9_Witness ==
  \E r \in Reqs :
    /\ response[r].kind = "redirect"
    /\ goalId[r] # 0 /\ trackingId[r] # ""
    /\ calls[r] = <<[tracking_id |-> trackingId[r], goal_id |-> goalId[r]]>>

\* The paths the claim names: nothing after the leading slash, a "/" inside
\* the segment, or the segment starting with "api".
NotAShortCode(p) ==
  \/ Len(p) = 1
  \/ \E i \in 2..Len(p) : p[i] = "/"
  \/ (Len(p) >= 4 /\ p[2] = "a" /\ p[3] = "p" /\ p[4] = "i")

\* C10: for such a path the middleware calls next() once and does nothing
\* else: no resolution, no click, no impression, no timer, no response.
C10_PassThrough ==
  \A r \in Reqs :
    (rid[r] # 0 /\ NotAShortCode(path[r])) =>
       /\ nextCalled[r] = 1
       /\ pc[r] = "passed"
       /\ result[r] = Unassigned /\ url[r] = Unassigned
       /\ trackingId[r] = ""
       /\ impTask[r] = NoTask /\ timer[r] = NoTask /\ calls[r] = <<>>
       /\ response[r] = NoResponse /\ sent[r] = 0
       /\ \A i \in impressions : i.req # rid[r]

\* A request for /api has been passed on while a resolved request is under way.
C10_Witness ==
  \E r, q \in Reqs :
    /\ path[r] = <<"/", "a", "p", "i">> /\ nextCalled[r] = 1 /\ pc[r] = "passed"
    /\ result[q].found


\* C11: a redirect is only ever written by a handler that holds the click id
\* its click recording returned, in a step taken after that return; while
\* the click recording is outstanding nothing is written.
C11_ClickBeforeRedirect ==
  /\ [](\A r \in Reqs :
          /\ (pc[r] = "resolve") => (response[r] = NoResponse /\ sent[r] = 0)
          /\ (response[r].kind = "redirect") =>
                (result[r].found /\ result[r].clickId \in 1..clicks))
  /\ [][\A r \in Reqs :
          (response'[r].kind = "redirect" /\ response[r].kind # "redirect") =>
             (result[r].found /\ pc[r] # "resolve")]_vars

\* A redirect has been written for the second click.
C11_Witness ==
  \E r \in Reqs :
    /\ response[r].kind = "redirect"
    /\ result[r].found /\ result[r].clickId = 2

\* C12: when recordClickAndGetOriginalUrl throws, the response is 500 with
\* body {status: 500, message: 'Internal Server Error'} and the request has
\* no impression, no goal lookup and no attribution timer.
C12_RecordingFailure ==
  \A r \in Reqs :
    (pc[r] = "done" /\ result[r] = Unassigned) =>
       /\ sent[r] = 1
       /\ response[r] =
            [kind |-> "json", status |-> 500,
             body |-> [status |-> 500, message |-> "Internal Server Error"]]
       /\ url[r] = Unassigned /\ goalId[r] = 0 /\ trackingId[r] = ""
       /\ impTask[r] = NoTask /\ timer[r] = NoTask /\ calls[r] = <<>>
       /\ \A i \in impressions : i.req # rid[r]

\* The click recording of a request for the goal-bearing link has thrown.
C12_Witness ==
  \E r \in Reqs :
    /\ pc[r] = "done" /\ result[r] = Unassigned
    /\ path[r] = <<"/", "c", "2">>
    /\ response[r].status = 500


\* C13 as stated: every request whose click was recorded ends in a redirect,
\* whichever later step fails.
C13_Original ==
  \A r \in Reqs :
    (result[r].found /\ pc[r] = "done") => response[r].kind = "redirect"

\* C13: once the click is recorded the request is never answered 404, and
\* it is answered 500 only when the redirect-type lookup threw; a request
\* whose lookup returned ends in a 301/302 redirect whatever became of the
\* impression check, the impression insert, the goals lookup and the
\* attribution call.
C13_ClickThenRedirect ==
  \A r \in Reqs :
    result[r].found =>
      /\ response[r] # NotFoundResponse
      /\ (response[r].kind = "json") =>
            (response[r] = InternalServerError /\ url[r] = Unassigned
               /\ impTask[r] = NoTask /\ timer[r] = NoTask)
      /\ (pc[r] = "done" /\ url[r] # Unassigned) =>
            (response[r].kind = "redirect" /\ response[r].status \in {301, 302}
               /\ sent[r] = 1)

\* A redirect was sent although the impression check threw, the goals
\* lookup threw and an earlier request's attribution call failed.
C13_Witness ==
  \E r, q \in Reqs :
    /\ pc[r] = "done" /\ result[r].found
    /\ impTask[r].st = "skipped"
    /\ GetGoalsByUrlId(result[r].urlId) # <<>> /\ goalId[r] = 0
    /\ response[r].kind = "redirect"
    /\ q # r /\ timer[q].st = "error" /\ response[q].kind = "redirect"


\* The link is active, not soft-deleted and not expired now.
Eligible(l) ==
  /\ LinkTable[l].is_active
  /\ l \notin deleted
  /\ ~(LinkTable[l].expiry >= 0 /\ LinkTable[l].expiry <= clock)

\* C14 as stated: the link is eligible at the moment the redirect is sent.
C14_Original ==
  [][\A r \in Reqs :
       (response'[r].kind = "redirect" /\ response[r].kind # "redirect") =>
          Eligible(result[r].urlId)]_vars

\* C14: a redirect is issued only for the link of the requested code, and
\* that link was active, not soft-deleted and not expired at the moment the
\* click of the request was recorded; it may have been soft-deleted since.
C14_EligibleWhenRecorded ==
  /\ [](\A r \in Reqs :
          (response[r].kind = "redirect") =>
             /\ result[r].found
             /\ LinkTable[result[r].urlId].short_code = ShortCode(path[r])
             /\ LinkTable[result[r].urlId].is_active
             /\ response[r].location[1] = LinkTable[result[r].urlId].original_url[1])
  /\ [][\A r \in Reqs :
          (result'[r].found /\ ~result[r].found) => Eligible(result'[r].urlId)]_vars

\* A redirect was sent for a link that was soft-deleted while the request
\* was in flight, before its redirect-type lookup.
C14_Witness ==
  \E r \in Reqs :
    /\ response[r].kind = "redirect"
    /\ result[r].urlId \in deleted
    /\ url[r] = NoUrl


Is2xx(outcome) ==
  outcome.kind = "response" /\ outcome.statusCode \in 200..299

\* C15: whatever the POST comes to, the attribution task ends with log
\* entries only: one info entry and no error entry for a 2xx response with
\* a complete body, at least one error entry and no info entry for a
\* non-2xx response, a cut-off body, a body without data and a connection
\* error; no rejection escapes and the redirect already sent stays as it is.
C15_OutcomeOnlyLogged ==
  \A r \in Reqs :
    (timer[r].st \notin {"none", "armed"}) =>
       LET o == timer[r].post
           good == Is2xx(o) /\ o.body = BodyFull
           levels == {timer[r].log[i].level : i \in 1..Len(timer[r].log)}
       IN /\ timer[r].st \in {"success", "error"}
          /\ good => (timer[r].st = "success" /\ levels = {"info"})
          /\ ~good => (timer[r].st = "error" /\ levels = {"error"})
          /\ response[r] =
               RedirectResponse(RedirectType(url[r]),
                                BuildRedirectUrl(result[r].originalUrl, trackingId[r]))
          /\ sent[r] = 1 /\ pc[r] = "done"

\* Between them the two handlers have seen a 2xx answer whose body has no
\* data member (logged as an error) and a connection error.
C15_Witness ==
  \E r, q \in Reqs :
    /\ timer[r].st = "error" /\ Is2xx(timer[r].post)
    /\ timer[r].post.body = BodyNoData
    /\ timer[q].st = "error" /\ timer[q].post.kind = "error"


\* C16: every response of the middleware is a 301 or 302 redirect with a
\* Location, the 404 body 'Short URL not found or has expired' or the 500
\* body 'Internal Server Error'; no body carries the text of a thrown error.
C16_ThreeShapes ==
  \A r \in Reqs :
    (response[r] # NoResponse) =>
       /\ \/ /\ response[r].kind = "redirect"
             /\ response[r].status \in {301, 302}
             /\ DOMAIN response[r] = {"kind", "status", "location"}
             /\ Len(response[r].location) > 0
          \/ response[r] =
               [kind |-> "json", status |-> 404,
                body |-> [status |-> 404,
                          message |-> "Short URL not found or has expired"]]
          \/ response[r] =
               [kind |-> "json", status |-> 500,
                body |-> [status |-> 500, message |-> "Internal Server Error"]]
       /\ (response[r].kind = "json") => response[r].body.message \notin ErrorMessages

\* The two handlers have answered 500 and 404.
C16_Witness ==
  \E r, q \in Reqs :
    /\ response[r].kind = "json" /\ response[r].status = 500
    /\ response[q].kind = "json" /\ response[q].status = 404


\* C17: a getTotalClicksAnalytics call without page that is answered 200
\* returns the first limit points of the series and current_page 1.
C17_DefaultPage ==
  (api.op = "getTotalClicksAnalytics" /\ api.st = "answered"
     /\ api.query.page = Undefined /\ api.response.status = 200) =>
       LET ts == api.response.data.time_series
           limit == ts.pagination.limit.n
           n == IF api.series < limit THEN api.series ELSE limit
       IN /\ ts.pagination.current_page = Num(1)
          /\ ts.data = SubSeq(Series(api.series), 1, n)

\* C18: a getTotalClicksAnalytics call of a user whose dates are valid and
\* whose comparison is none of 7, 14, 30, 90, custom is answered 400.
C18_ComparisonRejected ==
  (api.op = "getTotalClicksAnalytics" /\ api.st = "answered" /\ api.user # 0
     /\ api.query.start_date = Undefined /\ api.query.end_date = Undefined
     /\ api.query.comparison # Undefined
     /\ api.query.comparison.text \notin
          {<<"7">>, <<"1", "4">>, <<"3", "0">>, <<"9", "0">>, Custom}) =>
       api.response.status = 400

\* C19: getUrlDetails called by the owner with the short code of a link
\* returns that link.
C19_ByShortCode ==
  (api.op = "getUrlDetails" /\ api.st = "answered" /\ ~api.storeFails) =>
    \A i \in UrlIds :
      (UrlRows[i].short_code = api.identifier
         /\ UrlRows[i].user_id \in {0, api.user}) =>
           /\ api.response.status = 200
           /\ api.response.data.id = UrlRows[i].id
           /\ api.response.data.short_code = api.identifier


\* The value the URLs are to be ordered by: sortBy, created_at when sortBy
\* is absent or names no sortable field.
SortKey(u, sortBy) ==
  IF sortBy = Str("clicks") THEN u.clicks
  ELSE IF sortBy = Str("title") THEN u.title
  ELSE u.created_at

\* q holds the URLs in q0, each once, ordered by sortBy: ascending for
\* 'asc', descending otherwise (the default).
SortedListing(q, q0, sortBy, sortOrder) ==
  /\ Len(q) = Len(q0)
  /\ Range(q) = Range(q0)
  /\ \A i \in 1..(Len(q) - 1) :
       IF sortOrder = Str("asc")
       THEN SortKey(q[i], sortBy) <= SortKey(q[i + 1], sortBy)
       ELSE SortKey(q[i], sortBy) >= SortKey(q[i + 1], sortBy)

\* The elements of a set in some order.
RECURSIVE SetToSeq(_)
SetToSeq(S) ==
  IF S = {} THEN <<>>
  ELSE LET x == CHOOSE y \in S : TRUE IN <<x>> \o SetToSeq(S \ {x})

\* The answers to the call c asked for pages 1..p, one after the other.
RECURSIVE PagesUpTo(_, _)
PagesUpTo(c, p) ==
  IF p = 0 THEN <<>>
  ELSE PagesUpTo(c, p - 1)
         \o GetAllUrlsResponse([c EXCEPT !.query.page = Str(<<ToString(p)>>)]).data

\* The call is answered with the block of its page, and the pages make up
\* the sorted listing.
PageOfListing(c) ==
  LET p == c.response.pagination
      all == PagesUpTo(c, p.total_pages)
      last == IF p.page * p.limit < c.count THEN p.page * p.limit ELSE c.count
  IN /\ c.response.status = 200
     /\ p.total = c.count
     /\ p.total_pages = (c.count + p.limit - 1) \div p.limit
     /\ SortedListing(all, UserUrls(c.count), c.query.sortBy, c.query.sortOrder)
     /\ c.response.data = SubSeq(all, (p.page - 1) * p.limit + 1, last)

\* C20 as stated: every getAllUrls call the store answers gets its block.
C20_Original ==
  (api.op = "getAllUrls" /\ api.st = "answered" /\ api.user # 0 /\ ~api.storeFails) =>
     /\ "pagination" \in DOMAIN api.response
     /\ PageOfListing(api)

\* C20: for a user with at least one URL, a page of 1 or more and a limit of
\* 1 or more (an absent, zero or non-numeric page counts as 1, such a limit
\* as 10), getAllUrls returns positions (page-1)*limit up to page*limit of
\* the URLs sorted by sortBy in sortOrder, total is the number of URLs,
\* total_pages is ceil(total/limit), and pages 1..total_pages together hold
\* every URL once.  A user without URLs is answered 204 with an empty list
\* and no pagination; a negative page or limit is answered 200 with some
\* URLs of the user in sorted order, not with the block of the page.
C20_PagesOfSortedList ==
  (api.op = "getAllUrls" /\ api.st = "answered" /\ api.user # 0 /\ ~api.storeFails) =>
     IF api.count = 0
     THEN api.response = SendResponse(204, "No URLs are available", <<>>)
     ELSE /\ api.response.status = 200
          /\ IF api.response.pagination.page >= 1 /\ api.response.pagination.limit >= 1
             THEN PageOfListing(api)
             ELSE \E sub \in SUBSET Range(UserUrls(api.count)) :
                    SortedListing(api.response.data, SetToSeq(sub),
                                  api.query.sortBy, api.query.sortOrder)

\* The second page of two of a list of at least three URLs sorted by clicks.
C20_Witness ==
  /\ api.op = "getAllUrls" /\ api.st = "answered"
  /\ api.count >= 3
  /\ api.query.page = Str(<<"2">>) /\ api.query.limit = Str(<<"2">>)
  /\ api.query.sortBy = Str("clicks")
  /\ api.response.status = 200 /\ Len(api.response.data) >= 1


\* C21: a deleteUrl call soft-deletes a row only when the row exists and its
\* owner is the caller; a call answered 404 or 401 leaves the rows as they were.
C21_OwnerOnly ==
  (api.op = "deleteUrl" /\ api.st = "answered") =>
     /\ \A i \in api.removedAfter \ api.removed :
          \E k \in UrlIds : UrlRows[k].id = i /\ UrlRows[k].user_id = api.user
     /\ (api.response.status \in {404, 401}) => (api.removedAfter = api.removed)


\* C22: every attribution call of a request carries the first goal the
\* goals lookup returns for the request's link and the tracking id derived
\* from the request's own click; two requests never post the same tracking id.
C22_FirstGoalOwnTracking ==
  \A r \in Reqs :
    \A i \in 1..Len(calls[r]) :
      /\ result[r].found
      /\ calls[r][i].goal_id = GetGoalsByUrlId(result[r].urlId)[1]
      /\ calls[r][i].tracking_id = TrackingToken(result[r].clickId, result[r].urlId)
      /\ \A q \in Reqs \ {r} :
           \A j \in 1..Len(calls[q]) :
             calls[q][j].tracking_id # calls[r][i].tracking_id

\* Two requests for the link with several goals have both posted.
C22_Witness ==
  \E r, q \in Reqs :
    /\ r # q
    /\ Len(calls[r]) = 1 /\ Len(calls[q]) = 1
    /\ Len(GetGoalsByUrlId(result[r].urlId)) > 1
    /\ result[q].urlId = result[r].urlId


\* C23: an attribution call is started only by a request whose redirect has
\* already been written, and a timer is armed only together with the redirect.
C23_RedirectBeforeAttribution ==
  /\ [](\A r \in Reqs :
          (timer[r].st # "none" \/ calls[r] # <<>>) =>
             (response[r].kind = "redirect" /\ sent[r] = 1 /\ pc[r] = "done"))
  /\ [][\A r \in Reqs :
          /\ (Len(calls'[r]) > Len(calls[r])) =>
                (response[r].kind = "redirect" /\ timer[r].st = "armed")
          /\ (timer'[r].st = "armed" /\ timer[r].st # "armed") =>
                (response[r].kind = "none" /\ response'[r].kind = "redirect")]_vars

\* One request's call has been made after its redirect while the timer of
\* the other, whose redirect is out too, has not fired yet.
C23_Witness ==
  \E r, q \in Reqs :
    /\ Len(calls[r]) = 1 /\ timer[r].st \in {"success", "error"}
    /\ response[r].kind = "redirect"
    /\ timer[q].st = "armed" /\ calls[q] = <<>> /\ response[q].kind = "redirect"


\* C24: a request whose click was recorded and whose redirect-type lookup
\* returned no record ends in one redirect with status 302 to the
\* destination that click recording returned (with the campaign parameters
\* when there is a tracking id).
C24_NoRecordStill302 ==
  \A r \in Reqs :
    (pc[r] = "done" /\ result[r].found /\ url[r] = NoUrl) =>
       /\ sent[r] = 1
       /\ response[r] =
            [kind |-> "redirect", status |-> 302,
             location |-> LocationFor(result[r].originalUrl, trackingId[r])]
       /\ response[r].location[1] = LinkTable[result[r].urlId].original_url[1]

\* The link stored as a 301 link was soft-deleted between click recording
\* and the lookup, and the request was redirected with 302.
C24_Witness ==
  \E r \in Reqs :
    /\ pc[r] = "done" /\ result[r].found /\ url[r] = NoUrl
    /\ LinkTable[result[r].urlId].redirect_type = "301"
    /\ result[r].urlId \in deleted
    /\ response[r].kind = "redirect" /\ response[r].status = 302


\* C25: a request answered 404 has had no recent-impression check, has no
\* impression insert under way or stored, no goals lookup, no timer and no
\* attribution call.
C25_NotFoundTouchesNothing ==
  \A r \in Reqs :
    (response[r].kind = "json" /\ response[r].status = 404) =>
       /\ pc[r] = "done" /\ result[r] = NoResult
       /\ url[r] = Unassigned
       /\ impTask[r] = NoTask
       /\ goalId[r] = 0 /\ trackingId[r] = ""
       /\ timer[r] = NoTask /\ calls[r] = <<>>
       /\ \A i \in impressions : i.req # rid[r]

\* A request for a soft-deleted link was answered 404 while impression rows of
\* that link, stored for an earlier request, exist.
C25_Witness ==
  \E r \in Reqs :
    /\ response[r].kind = "json" /\ response[r].status = 404
    /\ path[r] = <<"/", "c", "1">>
    /\ \E i \in impressions : i.url_id = 1


\* C26: a request whose recent-impression check failed never gets an
\* impression row, and it ends in the redirect every request past the check
\* ends in: the status and the Location depend on the link record, the
\* destination and the tracking id only, not on how the check went.
C26_CheckFailureKeepsRedirect ==
  \A r \in Reqs :
    /\ (impTask[r].st = "skipped") => \A i \in impressions : i.req # rid[r]
    /\ (pc[r] = "done" /\ impTask[r] # NoTask) =>
          /\ sent[r] = 1
          /\ response[r] = [kind |-> "redirect", status |-> StatusFor(url[r]),
                            location |-> LocationFor(result[r].originalUrl,
                                                     trackingId[r])]

\* Two requests for the same link and with the same tracking state are done:
\* the check of one failed, the check of the other succeeded and its row is
\* stored; both were answered with the same redirect.
C26_Witness ==
  \E r, q \in Reqs :
    /\ pc[r] = "done" /\ impTask[r].st = "skipped"
    /\ pc[q] = "done" /\ impTask[q].st = "ok"
    /\ result[r].urlId = result[q].urlId
    /\ (trackingId[r] = "") = (trackingId[q] = "")
    /\ response[r].kind = "redirect"
    /\ response[r].status = response[q].status
    /\ \E i \in impressions : i.req = rid[q]

\* C27: a request whose goals lookup failed (it is done with no goal) is
\* answered with the redirect of its link's status, its Location carries the
\* campaign parameters when the request has a tracking id, and neither a timer
\* nor an attribution call exists for it.
C27_GoalsFailureMeansNoGoal ==
  \A r \in Reqs :
    (pc[r] = "done" /\ result[r].found /\ url[r] # Unassigned /\ goalId[r] = 0) =>
       /\ sent[r] = 1
       /\ response[r] = [kind |-> "redirect", status |-> StatusFor(url[r]),
                         location |-> LocationFor(result[r].originalUrl,
                                                  trackingId[r])]
       /\ timer[r] = NoTask
       /\ calls[r] = <<>>

\* A tracked request for the link that has goals is done without a goal, which
\* only a failed lookup produces, and its Location ends in the tracking id.
C27_Witness ==
  \E r \in Reqs :
    /\ pc[r] = "done" /\ result[r].found /\ result[r].urlId = 2
    /\ GetGoalsByUrlId(2) # <<>>
    /\ goalId[r] = 0 /\ trackingId[r] # ""
    /\ response[r].kind = "redirect"
    /\ response[r].location[Len(response[r].location)] = trackingId[r]
    /\ timer[r] = NoTask

====
